---------------------------- MODULE Spec2Model ----------------------------
(***************************************************************************)
(* Model of lambda_function.py: the S3-triggered thumbnail pipeline.       *)
(*                                                                         *)
(* lambda_handler walks event['Records'] in order; for each record it      *)
(* draws a uuid4, reads the source object, decodes it, shrinks it with     *)
(* Image.thumbnail((300, 300)), encodes it as JPEG, uploads it under       *)
(* resized/<basename(key)> and writes one DynamoDB item.  Any exception    *)
(* leaves the handler; after the loop it returns a fixed payload.          *)
(*                                                                         *)
(* Keys are sequences of one-character strings, so that basename is        *)
(* computed and not assumed.  Each blocking store call (get_object,        *)
(* put_object, put_item) is one atomic step, and an invocation's local     *)
(* code between two calls belongs to the step of the call that follows     *)
(* it.  Two invocations (separate Lambda executions) may interleave their  *)
(* steps; they share only S3, the table, the wall clock and the source of  *)
(* uuid4 values.                                                           *)
(***************************************************************************)
EXTENDS Integers, Sequences, FiniteSets, TLC

VARIABLES
    env,      \* os.environ: SOURCE_BUCKET, DEST_BUCKET, DDB_TABLE
    s3,       \* bucket name -> (key -> object); a key outside the DOMAIN is absent
    putBy,    \* <<bucket, key>> -> image_id of the record whose put_object wrote it last
    table,    \* the DynamoDB table: a set of items, at most one per image_id
    now,      \* the wall clock, in ticks of one microsecond
    inv       \* per invocation: position and locals of lambda_handler

vars == <<env, s3, putBy, table, now, inv>>

----------------------------------------------------------------------------
\* Bounds of the model.

\* Number of records in the events of all invocations together.
MaxRecords == 3

\* Last wall-clock tick the model lets the clock reach.
MaxClock == 2

\* Ticks per second of the model's clock (1000000 in the program).
UsecPerSec == 2

\* Largest width and height of the contiguous range of source image sizes.
MaxDim == 640

\* Longest key of the specification that enumerates the keys.
MaxKeyLen == 3

\* The invocations that may run concurrently.
Procs == {1, 2}

----------------------------------------------------------------------------
\* Program constants.

\* img.thumbnail((300, 300)): the bounding box of the thumbnail.
ThumbSize == 300

\* The return value of lambda_handler.
SuccessPayload ==
    [statusCode |-> 200, body |-> "Image resized and metadata stored successfully."]

\* The prefix of f"resized/{...}".
ResizedPrefix == <<"r", "e", "s", "i", "z", "e", "d", "/">>

NoPayload == [statusCode |-> 0, body |-> ""]

----------------------------------------------------------------------------
\* Objects.  fmt is the encoding of the bytes: an image format, "RAW" for
\* bytes that are no image.  mode is PIL's pixel mode of a decoded image.

Image(fmt, w, h, mode) == [fmt |-> fmt, w |-> w, h |-> h, mode |-> mode]

NotAnImage == [fmt |-> "RAW", w |-> 0, h |-> 0, mode |-> "-"]

NoImage == [fmt |-> "NONE", w |-> 0, h |-> 0, mode |-> "-"]

\* Image.open identifies the bytes or raises UnidentifiedImageError.
CanOpen(obj) == obj.fmt \in {"PNG", "JPEG"}

\* img.save(buffer, 'JPEG') raises OSError for a mode JPEG cannot hold.
CanSaveJPEG(img) == img.mode \in {"RGB", "L", "CMYK"}

----------------------------------------------------------------------------
\* os.path.basename

\* p.find('/') + 1 in the place of p.rfind('/') + 1.
RFindSepFirst(p) ==
    IF \E i \in 1..Len(p) : p[i] = "/"
    THEN 1 + (CHOOSE i \in 1..Len(p) : p[i] = "/" /\ \A j \in 1..(i - 1) : p[j] # "/")
    ELSE 1

\* p.rfind('/') + 1, counted from 1: the position after the last '/', 1 if none.
RFindSep(p) ==
    IF \E i \in 1..Len(p) : p[i] = "/"
    THEN 1 + (CHOOSE i \in 1..Len(p) : p[i] = "/" /\ \A j \in (i + 1)..Len(p) : p[j] # "/")
    ELSE 1

\* basename(p) = p[i:] with i = p.rfind('/') + 1
basename(p) == SubSeq(p, RFindSep(p), Len(p))

\* resized_key = f"resized/{os.path.basename(key)}"
ResizedKey(key) == ResizedPrefix \o basename(key)

----------------------------------------------------------------------------
\* Image.thumbnail((300, 300)) of Pillow: preserve_aspect_ratio and round_aspect.

Max(a, b) == IF a >= b THEN a ELSE b

Abs(a) == IF a >= 0 THEN a ELSE -a

Floor(num, den) == num \div den

Ceil(num, den) == IF num % den = 0 THEN num \div den ELSE (num \div den) + 1

\* round_aspect without max(..., 1).
RoundAspectNoClamp(f, c, kf, kc) ==
    IF kf < kc THEN {f}
    ELSE IF kc < kf THEN {c}
    ELSE {f, c}

\* round_aspect(number, key) = max(min(floor(number), ceil(number), key=key), 1),
\* given f = floor(number), c = ceil(number) and the keys kf, kc of the two
\* candidates, scaled by a common positive factor and compared exactly.  Pillow
\* computes number and the keys in binary floating point; when the two keys
\* are exactly equal the rounding error decides, so both candidates are outcomes.
RoundAspect(f, c, kf, kc) ==
    IF kf < kc THEN {Max(f, 1)}
    ELSE IF kc < kf THEN {Max(c, 1)}
    ELSE {Max(f, 1), Max(c, 1)}

\* The sizes thumbnail can give a W x H image that does not fit the box (one
\* size, except on a tie).  x / y >= aspect is 1 >= W / H.
\*   x, y = 300, 300
\*   aspect = width / height
\*   if x / y >= aspect: x = round_aspect(y * aspect, key=|aspect - n / y|)
\*   else:               y = round_aspect(x / aspect, key=0 if n == 0 else |aspect - x / n|)
ShrinkToBox(W, H) ==
    IF H >= W
    THEN LET f == Floor(ThumbSize * W, H)
             c == Ceil(ThumbSize * W, H)
         IN  {<<n, ThumbSize>> :
                 n \in RoundAspect(f, c, Abs(W * ThumbSize - f * H),
                                         Abs(W * ThumbSize - c * H))}
    ELSE LET f == Floor(ThumbSize * H, W)
             c == Ceil(ThumbSize * H, W)
             kf == IF f = 0 THEN 0 ELSE Abs(W * f - ThumbSize * H) * c
             kc == IF f = 0 THEN Abs(W * c - ThumbSize * H)
                            ELSE Abs(W * c - ThumbSize * H) * f
         IN  {<<ThumbSize, n>> : n \in RoundAspect(f, c, kf, kc)}

\* preserve_aspect_ratio without its early return: every image is fitted to the box.
PreserveAspectRatioAlways(W, H) == ShrinkToBox(W, H)

\* preserve_aspect_ratio: if x >= width and y >= height: return (size unchanged)
PreserveAspectRatio(W, H) ==
    IF ThumbSize >= W /\ ThumbSize >= H
    THEN {<<W, H>>}
    ELSE ShrinkToBox(W, H)

\* The images img.thumbnail((300, 300)); img.save(buffer, 'JPEG') can leave in buffer.
Thumbnails(img) ==
    {Image("JPEG", sz[1], sz[2], img.mode) : sz \in PreserveAspectRatio(img.w, img.h)}

----------------------------------------------------------------------------
\* uuid4, the clock and the item.

\* An id drawn once, when the module is loaded, in the place of one per record.
uuid4Constant(p, n) == <<"uuid", 0, 0>>

\* str(uuid.uuid4()) as drawn by invocation p after n earlier draws of its
\* own: 122 random bits, modelled as a value no other draw returns (the draws
\* are named by who drew them and when).
uuid4(p, n) == <<"uuid", p, n>>

\* datetime.utcnow() at clock tick t: <<second, microsecond>>.
utcnow(t) == <<t \div UsecPerSec, t % UsecPerSec>>

\* datetime.isoformat(): the fields from the most significant down, the
\* microsecond part left out when it is 0 ("...T00:00:01", "...T00:00:01.000001").
isoformat(dt) == IF dt[2] = 0 THEN <<dt[1]>> ELSE <<dt[1], dt[2]>>

\* The Item of table.put_item as built from a timestamp taken once, when the
\* module is loaded.
ItemLoadTime(p) ==
    [image_id      |-> inv[p].image_id,
     original_key  |-> inv[p].key,
     resized_key   |-> inv[p].resized_key,
     upload_time   |-> isoformat(utcnow(0)),
     source_bucket |-> env.SOURCE_BUCKET,
     dest_bucket   |-> env.DEST_BUCKET]

\* The Item of table.put_item, built from the locals of invocation p.
Item(p) ==
    [image_id      |-> inv[p].image_id,
     original_key  |-> inv[p].key,
     resized_key   |-> inv[p].resized_key,
     upload_time   |-> isoformat(utcnow(now)),
     source_bucket |-> env.SOURCE_BUCKET,
     dest_bucket   |-> env.DEST_BUCKET]

----------------------------------------------------------------------------
\* The stores.

\* s3.get_object found the key.
HasObject(bucket, key) == key \in DOMAIN s3[bucket]

\* The store after s3.put_object(Bucket=bucket, Key=key, Body=body): the key is
\* created or silently overwritten.
S3Put(bucket, key, body) ==
    [s3 EXCEPT ![bucket] =
        [k \in (DOMAIN s3[bucket]) \cup {key} |-> IF k = key THEN body ELSE s3[bucket][k]]]

\* putBy after the record with image_id id wrote <<bucket, key>>.
PutByAfter(bucket, key, id) ==
    [bk \in (DOMAIN putBy) \cup {<<bucket, key>>} |->
        IF bk = <<bucket, key>> THEN id ELSE putBy[bk]]

\* The table after table.put_item(Item=item): image_id is the table's key, so
\* an item with the same image_id is replaced.
TablePut(item) == {x \in table : x.image_id # item.image_id} \cup {item}

----------------------------------------------------------------------------
\* The objects and events of the model.

SourceBucket == "uploads"

OtherBucket == "thumbs"

TableName == "images"

\* "p/c": an image larger than the box (1000 x 500, as photos/cat.png in the
\* specification's example).
KeyCat == <<"p", "/", "c">>

\* "resized/c": another path with the same final segment, an image inside the
\* box; it is the destination key of both itself and "p/c".
KeyResized == ResizedPrefix \o <<"c">>

\* "t": an object that is no image.
KeyText == <<"t">>

\* "m": no such object.
KeyMissing == <<"m">>

SampleKeys == {KeyCat, KeyResized, KeyText, KeyMissing}

SourceObjects ==
    [k \in {KeyCat, KeyResized, KeyText} |->
        IF k = KeyCat THEN Image("PNG", 1000, 500, "RGB")
        ELSE IF k = KeyResized THEN Image("JPEG", 200, 100, "RGB")
        ELSE NotAnImage]

\* The key lists of event['Records'] the model invokes the handler with.
SeqsUpTo(S, n) == UNION {[1..m -> S] : m \in 0..n}

Events == SeqsUpTo(SampleKeys, MaxRecords)

RECURSIVE SumOver(_, _)
SumOver(f, S) ==
    IF S = {} THEN 0
    ELSE LET x == CHOOSE y \in S : TRUE IN f[x] + SumOver(f, S \ {x})

\* Records of the events delivered so far.
Delivered == SumOver([p \in Procs |-> Len(inv[p].Records)], Procs)

----------------------------------------------------------------------------
\* lambda_handler.  pc: "idle" not invoked yet, "loop" at the for statement
\* (line 16), "upload" after get_object returned (line 22), "put_item" after
\* put_object returned (line 35), "returned" (line 44), "raised" an exception
\* left the handler.  Besides the handler's locals an invocation keeps what it
\* did: ids, the image_id of each record it started; gets, puts, items, the
\* numbers of get_object, put_object and put_item calls that returned or
\* raised NoSuchKey (gets) and that succeeded (puts, items); error, the
\* exception that left the handler; fault, whether that exception was a
\* failure of the store service itself.

NoKey == <<>>

NoId == <<"uuid", 0, -1>>

Idle ==
    [pc |-> "idle", Records |-> <<>>, i |-> 0, key |-> NoKey, image_id |-> NoId,
     img |-> NoImage, buffer |-> NoImage, resized_key |-> NoKey,
     ret |-> NoPayload, error |-> "", fault |-> FALSE,
     ids |-> <<>>, gets |-> 0, puts |-> 0, items |-> 0]

\* The invocation starts: lines 12-14.
Invoke(p) ==
    /\ inv[p].pc = "idle"
    /\ \E event \in Events :
          /\ Delivered + Len(event) <= MaxRecords
          /\ inv' = [inv EXCEPT ![p].pc = "loop", ![p].Records = event]
    /\ UNCHANGED <<env, s3, putBy, table, now>>

\* get_object of a missing key treated as "skip this record".
GetObjectSkipMissing(p) ==
    /\ inv[p].pc = "loop"
    /\ inv[p].i < Len(inv[p].Records)
    /\ LET key == inv[p].Records[inv[p].i + 1]
           id  == uuid4(p, inv[p].i)
           q   == [inv[p] EXCEPT !.i = @ + 1, !.key = key, !.image_id = id,
                                 !.ids = Append(@, id), !.gets = @ + 1]
       IN  IF HasObject(env.SOURCE_BUCKET, key)
           THEN inv' = [inv EXCEPT ![p] =
                           [q EXCEPT !.pc = "upload",
                                     !.img = s3[env.SOURCE_BUCKET][key]]]
           ELSE inv' = [inv EXCEPT ![p] = q]
    /\ UNCHANGED <<env, s3, putBy, table, now>>

\* Lines 16-21: the next record, its key and uuid4, and s3.get_object, which
\* raises NoSuchKey when the source bucket holds no such key.
GetObject(p) ==
    /\ inv[p].pc = "loop"
    /\ inv[p].i < Len(inv[p].Records)
    /\ LET key == inv[p].Records[inv[p].i + 1]
           id  == uuid4(p, inv[p].i)
           q   == [inv[p] EXCEPT !.i = @ + 1, !.key = key, !.image_id = id,
                                 !.ids = Append(@, id), !.gets = @ + 1]
       IN  IF HasObject(env.SOURCE_BUCKET, key)
           THEN inv' = [inv EXCEPT ![p] =
                           [q EXCEPT !.pc = "upload",
                                     !.img = s3[env.SOURCE_BUCKET][key]]]
           ELSE inv' = [inv EXCEPT ![p] =
                           [q EXCEPT !.pc = "raised", !.error = "NoSuchKey"]]
    /\ UNCHANGED <<env, s3, putBy, table, now>>

\* Bucket=dest_bucket of put_object read from the wrong variable.
UploadBucketSource == env.SOURCE_BUCKET

\* Bucket=dest_bucket of s3.put_object (line 32).
UploadBucket == env.DEST_BUCKET

\* put_object that refuses to overwrite an existing key.
PutObjectIfAbsent(bucket, key, serviceOk) == serviceOk /\ ~HasObject(bucket, key)

\* Whether s3.put_object(Bucket=bucket, Key=key, ...) succeeds: it does unless
\* the service fails the call; an existing key is no obstacle.
PutObjectSucceeds(bucket, key, serviceOk) == serviceOk

\* Lines 22-32: Image.open, thumbnail, save as JPEG, the destination key and
\* s3.put_object.  Image.open raises on bytes that are no image, save raises
\* on a mode JPEG cannot hold, put_object raises when the service fails.
Upload(p) ==
    /\ inv[p].pc = "upload"
    /\ IF ~CanOpen(inv[p].img)
       THEN /\ inv' = [inv EXCEPT ![p].pc = "raised",
                                  ![p].error = "UnidentifiedImageError"]
            /\ UNCHANGED <<s3, putBy>>
       ELSE IF ~CanSaveJPEG(inv[p].img)
       THEN /\ inv' = [inv EXCEPT ![p].pc = "raised", ![p].error = "OSError"]
            /\ UNCHANGED <<s3, putBy>>
       ELSE \E buffer \in Thumbnails(inv[p].img), serviceOk \in BOOLEAN :
              LET rk == ResizedKey(inv[p].key)
                  q  == [inv[p] EXCEPT !.buffer = buffer, !.resized_key = rk]
              IN  IF PutObjectSucceeds(UploadBucket, rk, serviceOk)
                  THEN /\ s3' = S3Put(UploadBucket, rk, buffer)
                       /\ putBy' = PutByAfter(UploadBucket, rk, inv[p].image_id)
                       /\ inv' = [inv EXCEPT ![p] =
                                     [q EXCEPT !.pc = "put_item", !.puts = @ + 1]]
                  ELSE /\ inv' = [inv EXCEPT ![p] =
                                     [q EXCEPT !.pc = "raised", !.error = "S3WriteError",
                                               !.fault = ~serviceOk]]
                       /\ UNCHANGED <<s3, putBy>>
    /\ UNCHANGED <<env, table, now>>

\* The store after the key is deleted from the bucket.
S3Delete(bucket, key) ==
    [s3 EXCEPT ![bucket] = [k \in (DOMAIN s3[bucket]) \ {key} |-> s3[bucket][k]]]

\* put_item with a compensating cleanup: when the write fails, the derived
\* object just uploaded is deleted again.
PutItemWithCleanup(p) ==
    /\ inv[p].pc = "put_item"
    /\ \E serviceOk \in BOOLEAN :
          IF serviceOk
          THEN /\ table' = TablePut(Item(p))
               /\ inv' = [inv EXCEPT ![p].pc = "loop", ![p].items = @ + 1]
               /\ UNCHANGED s3
          ELSE /\ inv' = [inv EXCEPT ![p].pc = "raised",
                                     ![p].error = "DynamoDBWriteError",
                                     ![p].fault = TRUE]
               /\ s3' = S3Delete(UploadBucket, inv[p].resized_key)
               /\ UNCHANGED table
    /\ UNCHANGED <<env, putBy, now>>

\* Lines 35-42: the item, with the clock read as it is built, and
\* table.put_item, which raises when the service fails; then back to line 16.
PutItem(p) ==
    /\ inv[p].pc = "put_item"
    /\ \E serviceOk \in BOOLEAN :
          IF serviceOk
          THEN /\ table' = TablePut(Item(p))
               /\ inv' = [inv EXCEPT ![p].pc = "loop", ![p].items = @ + 1]
          ELSE /\ inv' = [inv EXCEPT ![p].pc = "raised",
                                     ![p].error = "DynamoDBWriteError",
                                     ![p].fault = TRUE]
               /\ UNCHANGED table
    /\ UNCHANGED <<env, s3, putBy, now>>

\* The return statement indented into the loop: the handler returns as soon
\* as one record is done.
ReturnInsideLoop(p) ==
    /\ inv[p].pc = "loop"
    /\ inv[p].i = Len(inv[p].Records) \/ inv[p].i >= 1
    /\ inv' = [inv EXCEPT ![p].pc = "returned", ![p].ret = SuccessPayload]
    /\ UNCHANGED <<env, s3, putBy, table, now>>

\* Line 44: the loop is exhausted and the handler returns the payload.
Return(p) ==
    /\ inv[p].pc = "loop"
    /\ inv[p].i = Len(inv[p].Records)
    /\ inv' = [inv EXCEPT ![p].pc = "returned", ![p].ret = SuccessPayload]
    /\ UNCHANGED <<env, s3, putBy, table, now>>

\* Time passes: the clock datetime.utcnow() reads moves forward by one tick
\* (a system clock set back between two reads is not modelled).
Tick ==
    /\ now < MaxClock
    /\ now' = now + 1
    /\ UNCHANGED <<env, s3, putBy, table, inv>>

----------------------------------------------------------------------------
\* The system: two invocations against one pair of buckets and one table.

Buckets == {SourceBucket, OtherBucket}

EmptyBucket == [k \in {} |-> NoImage]

NothingPut == [bk \in {} |-> NoId]

\* Lines 8-14: the clients, the table handle and the three environment
\* variables; DEST_BUCKET may name the source bucket or another one.
Environments ==
    {[SOURCE_BUCKET |-> SourceBucket, DEST_BUCKET |-> d, DDB_TABLE |-> TableName] :
        d \in Buckets}

InitialS3 == [b \in Buckets |-> IF b = SourceBucket THEN SourceObjects ELSE EmptyBucket]

Init ==
    /\ env \in Environments
    /\ s3 = InitialS3
    /\ putBy = NothingPut
    /\ table = {}
    /\ now = 0
    /\ inv = [p \in Procs |-> Idle]

Next ==
    \/ \E p \in Procs : Invoke(p)
    \/ \E p \in Procs : GetObject(p)
    \/ \E p \in Procs : Upload(p)
    \/ \E p \in Procs : PutItem(p)
    \/ \E p \in Procs : Return(p)
    \/ Tick

Spec == Init /\ [][Next]_vars

----------------------------------------------------------------------------
\* The resize on every image size: invocation 1 is invoked with the one record
\* "p/c", which names a W x H image.

\* Sizes beyond the contiguous range: the 1000 x 500 example of the specification.
ExtraDims == {500, 1000}

Dims == (1..MaxDim) \cup ExtraDims

InitThumb ==
    /\ env = [SOURCE_BUCKET |-> SourceBucket, DEST_BUCKET |-> OtherBucket,
              DDB_TABLE |-> TableName]
    /\ \E W \in Dims, H \in Dims :
          s3 = [b \in Buckets |->
                  IF b = SourceBucket THEN [k \in {KeyCat} |-> Image("PNG", W, H, "RGB")]
                  ELSE EmptyBucket]
    /\ inv = [p \in Procs |->
                IF p = 1 THEN [Idle EXCEPT !.pc = "loop", !.Records = <<KeyCat>>]
                ELSE Idle]
    /\ putBy = NothingPut
    /\ table = {}
    /\ now = 0

NextThumb == GetObject(1) \/ Upload(1)

SpecThumb == InitThumb /\ [][NextThumb]_vars

----------------------------------------------------------------------------
\* The destination key on every short key: invocation 1 is invoked with two
\* records whose keys are any strings over KeyAlphabet, each naming an image.

KeyAlphabet == {"a", "b", "/"}

ShortKeys == UNION {[1..m -> KeyAlphabet] : m \in 1..MaxKeyLen}

\* The images the short keys name: one JPEG can hold, one it cannot (alpha).
KeyImages == {Image("PNG", 40, 30, "RGB"), Image("PNG", 40, 30, "RGBA")}

InitKey ==
    /\ env \in Environments
    /\ \E k1 \in ShortKeys, k2 \in ShortKeys, obj \in KeyImages :
          /\ s3 = [b \in Buckets |->
                      IF b = SourceBucket THEN [k \in {k1, k2} |-> obj]
                      ELSE EmptyBucket]
          /\ inv = [p \in Procs |->
                      IF p = 1 THEN [Idle EXCEPT !.pc = "loop", !.Records = <<k1, k2>>]
                      ELSE Idle]
    /\ putBy = NothingPut
    /\ table = {}
    /\ now = 0

NextKey == GetObject(1) \/ Upload(1) \/ PutItem(1) \/ Return(1)

SpecKey == InitKey /\ [][NextKey]_vars

----------------------------------------------------------------------------
\* Vocabulary of the properties.

\* The items of the table with this image_id.
ItemsWithId(id) == {x \in table : x.image_id = id}

\* s is the final '/'-separated segment of key.
IsFinalSegment(s, key) ==
    /\ \A i \in 1..Len(s) : s[i] # "/"
    /\ \E n \in 0..Len(key) :
          /\ s = SubSeq(key, n + 1, Len(key))
          /\ n = 0 \/ key[n] = "/"

\* dkey is 'resized/' followed by the final segment of key.
IsResizedKeyOf(dkey, key) ==
    /\ Len(dkey) >= Len(ResizedPrefix)
    /\ SubSeq(dkey, 1, Len(ResizedPrefix)) = ResizedPrefix
    /\ IsFinalSegment(SubSeq(dkey, Len(ResizedPrefix) + 1, Len(dkey)), key)

\* Order of two isoformat strings, compared as strings (field by field, a
\* proper prefix first).
IsoLeq(a, b) ==
    \/ a[1] < b[1]
    \/ /\ a[1] = b[1]
       /\ \/ Len(a) = 1
          \/ Len(b) = 2 /\ a[2] <= b[2]

\* Number of '/' in a key.
Depth(key) == Cardinality({i \in 1..Len(key) : key[i] = "/"})

\* Invocation p has attempted the read of its record n.
ReadAttempted(p, n) == n \in 1..inv[p].i

\* The derived image d keeps the aspect ratio of the source image g up to the
\* rounding of one dimension to a neighbouring integer.
AspectKept(g, d) == Abs(d.h * g.w - d.w * g.h) < Max(g.w, g.h)

----------------------------------------------------------------------------
\* C1: when the read of record N finds no source object, the invocation has
\* raised NoSuchKey at record N and returns no payload; it has made no
\* upload and written no item for record N or a later one (its successful
\* uploads and items are exactly those of records 1..N-1), and the items and
\* derived objects of the records before N are still there.
C1_MissingSourceAbortsBatch ==
    \A p \in Procs : \A n \in 1..Len(inv[p].Records) :
        (ReadAttempted(p, n) /\ ~HasObject(env.SOURCE_BUCKET, inv[p].Records[n])) =>
            /\ inv[p].pc = "raised"
            /\ inv[p].error = "NoSuchKey"
            /\ inv[p].ret = NoPayload
            /\ inv[p].i = n
            /\ inv[p].puts = n - 1
            /\ inv[p].items = n - 1
            /\ \A j \in n..Len(inv[p].ids) :
                  /\ ItemsWithId(inv[p].ids[j]) = {}
                  /\ \A bk \in DOMAIN putBy : putBy[bk] # inv[p].ids[j]
            /\ \A j \in 1..(n - 1) :
                  /\ \E x \in ItemsWithId(inv[p].ids[j]) :
                        x.original_key = inv[p].Records[j]
                  /\ HasObject(env.DEST_BUCKET, ResizedKey(inv[p].Records[j]))

\* A batch of three whose second record names a missing object: the first
\* record's item is in the table, the third record was never started.
C1_Witness ==
    \E p \in Procs :
        /\ inv[p].pc = "raised"
        /\ inv[p].error = "NoSuchKey"
        /\ Len(inv[p].Records) = 3
        /\ inv[p].i = 2
        /\ inv[p].items = 1
        /\ Cardinality(table) = 1

\* C2: the table holds exactly one item per record that completed all steps
\* (so no put_item replaced an earlier item), the item of each completed
\* record carries that record's image_id and key, and the image_id values of
\* the table are pairwise distinct.
C2_OneItemPerCompletedRecord ==
    /\ Cardinality(table) = SumOver([p \in Procs |-> inv[p].items], Procs)
    /\ \A p \in Procs : \A j \in 1..inv[p].items :
          \E x \in ItemsWithId(inv[p].ids[j]) :
              /\ x.original_key = inv[p].Records[j]
              /\ x.resized_key = ResizedKey(inv[p].Records[j])
    /\ \A x \in table : \A y \in table : x.image_id = y.image_id => x = y

\* The same key twice in one batch and once more in another invocation: three
\* items with three image_ids and equal original_key and resized_key.
C2_Witness ==
    /\ Cardinality(table) = 3
    /\ Cardinality({x.image_id : x \in table}) = 3
    /\ Cardinality({<<x.original_key, x.resized_key>> : x \in table}) = 1
    /\ inv[1].items = 2
    /\ inv[2].items = 1

\* C3: the key of every upload and the resized_key of every item are
\* 'resized/' followed by the final '/'-separated segment of the record's
\* source key, whatever the number of segments.
C3_DestinationKeyIsBasename ==
    /\ \A x \in table : IsResizedKeyOf(x.resized_key, x.original_key)
    /\ \A p \in Procs :
          inv[p].pc = "put_item" =>
              /\ IsResizedKeyOf(inv[p].resized_key, inv[p].key)
              /\ <<env.DEST_BUCKET, inv[p].resized_key>> \in DOMAIN putBy
              /\ putBy[<<env.DEST_BUCKET, inv[p].resized_key>>] = inv[p].image_id
    /\ \A bk \in DOMAIN putBy :
          \E p \in Procs : \E j \in 1..Len(inv[p].ids) :
              /\ putBy[bk] = inv[p].ids[j]
              /\ IsResizedKeyOf(bk[2], inv[p].Records[j])

\* Two records whose keys differ in depth and share the final segment: two
\* items with one resized_key.
C3_Witness ==
    \E x \in table : \E y \in table :
        /\ Depth(x.original_key) = 0
        /\ Depth(y.original_key) = 2
        /\ x.resized_key = y.resized_key
        /\ Len(x.resized_key) > Len(ResizedPrefix)

\* C4: the derived image uploaded for a W x H source image has both
\* dimensions between 1 and 300 and the source's aspect ratio up to the
\* rounding of one dimension.
C4_ThumbnailFitsBox ==
    \A p \in Procs :
        inv[p].pc = "put_item" =>
            LET d == s3[env.DEST_BUCKET][inv[p].resized_key]
            IN  /\ d.fmt = "JPEG"
                /\ d.w >= 1
                /\ d.h >= 1
                /\ Max(d.w, d.h) <= ThumbSize
                /\ AspectKept(inv[p].img, d)

\* The specification's example: 1000 x 500 gives 300 x 150.
C4_Witness ==
    /\ inv[1].pc = "put_item"
    /\ inv[1].img.w = 1000
    /\ inv[1].img.h = 500
    /\ s3[env.DEST_BUCKET][inv[1].resized_key].w = 300
    /\ s3[env.DEST_BUCKET][inv[1].resized_key].h = 150

\* C5: a source image with width and height both at most 300 is uploaded
\* with exactly its own width and height.
C5_NoUpscaling ==
    \A p \in Procs :
        (/\ inv[p].pc = "put_item"
         /\ inv[p].img.w <= ThumbSize
         /\ inv[p].img.h <= ThumbSize) =>
            LET d == s3[env.DEST_BUCKET][inv[p].resized_key]
            IN  d.w = inv[p].img.w /\ d.h = inv[p].img.h

\* A 200 x 100 image uploaded as 200 x 100.
C5_Witness ==
    /\ inv[1].pc = "put_item"
    /\ inv[1].img.w = 200
    /\ inv[1].img.h = 100
    /\ s3[env.DEST_BUCKET][inv[1].resized_key].w = 200
    /\ s3[env.DEST_BUCKET][inv[1].resized_key].h = 100

\* C6: an invocation holds the fixed payload exactly when it has returned,
\* and it has returned only with every record of its batch read, uploaded
\* and recorded (for the empty batch: after no store call); an invocation
\* that raised holds no payload and left at least one record without item.
C6_PayloadIffAllRecordsDone ==
    \A p \in Procs :
        /\ inv[p].ret \in {NoPayload, SuccessPayload}
        /\ inv[p].ret = SuccessPayload <=> inv[p].pc = "returned"
        /\ inv[p].pc = "returned" =>
              /\ inv[p].gets = Len(inv[p].Records)
              /\ inv[p].puts = Len(inv[p].Records)
              /\ inv[p].items = Len(inv[p].Records)
              /\ \A j \in 1..Len(inv[p].Records) : ItemsWithId(inv[p].ids[j]) # {}
        /\ inv[p].pc = "raised" =>
              /\ inv[p].error # ""
              /\ inv[p].items < Len(inv[p].Records)

\* One invocation returned the payload for the empty batch without a store
\* call, the other for a batch of two, and the table holds the two items.
C6_Witness ==
    \E p \in Procs : \E q \in Procs :
        /\ inv[p].pc = "returned"
        /\ inv[p].Records = <<>>
        /\ inv[p].gets + inv[p].puts + inv[p].items = 0
        /\ inv[q].pc = "returned"
        /\ Len(inv[q].Records) = 2
        /\ inv[q].ret = SuccessPayload
        /\ Cardinality(table) = 2

\* C7: under every interleaving of two invocations, an invocation fails only
\* for a cause of its own (its source object is missing or cannot be decoded
\* or encoded, or the store service failed its call), never because of what
\* the other one wrote; every completed record's item is in the table, the
\* two invocations' image_ids differ, and the only objects written are the
\* destination keys, each holding the upload of the record that wrote it
\* last.
C7_ConcurrentInvocationsIndependent ==
    /\ \A p \in Procs :
          inv[p].pc = "raised" =>
              \/ inv[p].fault
              \/ /\ inv[p].error = "NoSuchKey"
                 /\ inv[p].key \notin DOMAIN SourceObjects
              \/ /\ inv[p].error = "UnidentifiedImageError"
                 /\ inv[p].key \in DOMAIN SourceObjects
                 /\ ~CanOpen(SourceObjects[inv[p].key])
              \/ /\ inv[p].error = "OSError"
                 /\ inv[p].key \in DOMAIN SourceObjects
                 /\ ~CanSaveJPEG(SourceObjects[inv[p].key])
    /\ \A p \in Procs : \A j \in 1..inv[p].items : ItemsWithId(inv[p].ids[j]) # {}
    /\ \A p \in Procs : \A q \in Procs \ {p} :
          \A j \in 1..Len(inv[p].ids) : \A k \in 1..Len(inv[q].ids) :
              inv[p].ids[j] # inv[q].ids[k]
    /\ \A b \in Buckets : \A k \in DOMAIN s3[b] :
          \/ /\ k \in DOMAIN InitialS3[b]
             /\ s3[b][k] = InitialS3[b][k]
          \/ /\ b = env.DEST_BUCKET
             /\ <<b, k>> \in DOMAIN putBy
             /\ \E p \in Procs : \E j \in 1..Len(inv[p].ids) :
                   /\ putBy[<<b, k>>] = inv[p].ids[j]
                   /\ k = ResizedKey(inv[p].Records[j])
                   /\ s3[b][k].fmt = "JPEG"
                   /\ env.DEST_BUCKET # env.SOURCE_BUCKET =>
                         s3[b][k] \in Thumbnails(SourceObjects[inv[p].Records[j]])
                   /\ inv[p].image_id = inv[p].ids[j] => s3[b][k] = inv[p].buffer

\* Both invocations processed "p/c" and returned; both items are in the
\* table, and the destination object is the one invocation 1 uploaded, after
\* invocation 2 had uploaded too.
C7_Witness ==
    /\ inv[1].pc = "returned"
    /\ inv[2].pc = "returned"
    /\ inv[1].Records = <<KeyCat>>
    /\ inv[2].Records = <<KeyCat>>
    /\ Cardinality(table) = 2
    /\ putBy[<<env.DEST_BUCKET, ResizedKey(KeyCat)>>] = inv[1].ids[1]

\* The upload_time values of the items invocation p wrote, in record order.
UploadTimes(p) ==
    [j \in 1..inv[p].items |->
        (CHOOSE x \in table : x.image_id = inv[p].ids[j]).upload_time]

\* The upload_time values of one invocation's items do not decrease in the
\* order of the records.
UploadTimesNonDecreasing ==
    \A p \in Procs : \A j \in 1..inv[p].items : \A k \in j..inv[p].items :
        IsoLeq(UploadTimes(p)[j], UploadTimes(p)[k])

\* A put_item step writes the clock reading of that step, and the record's
\* derived object is uploaded by then.
UploadTimeReadAtPutItem ==
    \A p \in Procs :
        inv'[p].items = inv[p].items + 1 =>
            /\ \E x \in table' :
                  /\ x.image_id = inv[p].image_id
                  /\ x.upload_time = isoformat(utcnow(now))
            /\ inv[p].puts = inv[p].items + 1
            /\ HasObject(env.DEST_BUCKET, inv[p].resized_key)

\* C8: within one invocation the upload_time values are non-decreasing in
\* record order, and each is the UTC clock reading taken at the step that
\* builds and writes the record's item, after the record's upload.
C8_UploadTimeOrdered ==
    /\ []UploadTimesNonDecreasing
    /\ [][UploadTimeReadAtPutItem]_vars

\* Two items of one invocation, the first written within a second
\* ("...:00.000001"), the second on the next full second ("...:01").
C8_Witness ==
    \E p \in Procs :
        /\ inv[p].items = 2
        /\ UploadTimes(p)[1] = <<0, 1>>
        /\ UploadTimes(p)[2] = <<1>>

\* C9 as stated: in every configuration every object the source bucket held
\* before the invocations is still there with the same content.
C9_SourceObjectsUntouched ==
    \A k \in DOMAIN InitialS3[env.SOURCE_BUCKET] :
        /\ HasObject(env.SOURCE_BUCKET, k)
        /\ s3[env.SOURCE_BUCKET][k] = InitialS3[env.SOURCE_BUCKET][k]

\* C9, amended: every object of the source bucket is one it held before,
\* with its content, except, when DEST_BUCKET names the source bucket, the
\* destination keys resized/<basename> the invocations uploaded to; no
\* object is deleted.
C9_SourceChangedOnlyAsDestination ==
    /\ \A k \in DOMAIN InitialS3[env.SOURCE_BUCKET] : HasObject(env.SOURCE_BUCKET, k)
    /\ \A k \in DOMAIN s3[env.SOURCE_BUCKET] :
          \/ /\ k \in DOMAIN InitialS3[env.SOURCE_BUCKET]
             /\ s3[env.SOURCE_BUCKET][k] = InitialS3[env.SOURCE_BUCKET][k]
          \/ /\ env.DEST_BUCKET = env.SOURCE_BUCKET
             /\ <<env.SOURCE_BUCKET, k>> \in DOMAIN putBy
             /\ \E p \in Procs : \E j \in 1..Len(inv[p].ids) :
                   k = ResizedKey(inv[p].Records[j])

\* Distinct buckets, both invocations have uploaded, the source is as it was.
C9_Witness ==
    /\ env.DEST_BUCKET # env.SOURCE_BUCKET
    /\ \A p \in Procs : inv[p].puts >= 1
    /\ s3[env.SOURCE_BUCKET] = InitialS3[env.SOURCE_BUCKET]
    /\ DOMAIN s3[env.DEST_BUCKET] # {}

\* C10: an item's resized_key names a destination key already uploaded to,
\* the metadata write of a record starts only with its derived object in the
\* destination bucket, and when the metadata write fails the derived object
\* stays there while the table holds no item for the record.
C10_UploadBeforeMetadataNoCleanup ==
    /\ \A x \in table :
          /\ <<x.dest_bucket, x.resized_key>> \in DOMAIN putBy
          /\ HasObject(x.dest_bucket, x.resized_key)
    /\ \A p \in Procs :
          inv[p].pc = "put_item" =>
              /\ HasObject(env.DEST_BUCKET, inv[p].resized_key)
              /\ ItemsWithId(inv[p].image_id) = {}
    /\ \A p \in Procs :
          (inv[p].pc = "raised" /\ inv[p].error = "DynamoDBWriteError") =>
              /\ HasObject(env.DEST_BUCKET, inv[p].resized_key)
              /\ s3[env.DEST_BUCKET][inv[p].resized_key].fmt = "JPEG"
              /\ ItemsWithId(inv[p].image_id) = {}

\* The metadata write of the only record failed: the derived object is in the
\* destination bucket and the table is empty.
C10_Witness ==
    \E p \in Procs :
        /\ inv[p].pc = "raised"
        /\ inv[p].error = "DynamoDBWriteError"
        /\ inv[p].puts = 1
        /\ HasObject(env.DEST_BUCKET, inv[p].resized_key)
        /\ table = {}

============================================================================
